---- MODULE Spec2Model ----
(***************************************************************************)
(* A model of MockMonitor (sdk/nodejs/runtime/mocks.ts): the resource      *)
(* registry, the synthesis of URNs, and the five protocol handlers with    *)
(* their suspension points.                                                *)
(*                                                                         *)
(* Strings the code splits and joins are sequences of atoms, "::" and "$"  *)
(* being atoms of their own, so that split and join are computed.          *)
(* A JavaScript object is a function from its keys to its values; a leaf   *)
(* value is a string naming what kind of value it is (see Leaves).         *)
(***************************************************************************)
EXTENDS Integers, Sequences, FiniteSets, Bags, TLC

\* ------------------------------------------------------------------ bounds
\* Handler calls started in one behaviour.
MaxCalls == 3
\* Handler calls suspended at an await at the same time.
MaxInFlight == 2
\* Registrations of one chain in the name-synthesis specification.
MaxRegs == 4

\* ------------------------------------------------------------- JS strings
Sep == "::"
Dollar == "$"
EmptyString == <<>>

\* String.prototype.split with a one-atom separator: the pieces between the
\* occurrences of sep (always at least one piece).
RECURSIVE SplitFrom(_, _, _)
SplitFrom(s, sep, cur) ==
    IF s = <<>> THEN <<cur>>
    ELSE IF Head(s) = sep THEN <<cur>> \o SplitFrom(Tail(s), sep, <<>>)
    ELSE SplitFrom(Tail(s), sep, Append(cur, Head(s)))

Split(s, sep) == SplitFrom(s, sep, <<>>)

\* Array.prototype.join with a one-atom separator.
RECURSIVE Join(_, _)
Join(parts, sep) ==
    IF parts = <<>> THEN <<>>
    ELSE IF Len(parts) = 1 THEN parts[1]
    ELSE parts[1] \o <<sep>> \o Join(Tail(parts), sep)

\* Array.prototype.pop on a non-empty array: its last element.
Pop(parts) == parts[Len(parts)]

\* ------------------------------------------------------------ settings
\* getStack() and getProject(): the defaults setMocks documents.
getStack == <<"stack">>
getProject == <<"project">>

\* ------------------------------------------------------------ newUrn
\* newUrn throws a TypeError when the parent has no third "::" component
\* (undefined.split).
NewUrnThrows(parent) ==
    /\ parent # EmptyString
    /\ Len(Split(parent, Sep)) < 3

\* newUrn keeping the parent's whole type chain (a faulty variant of NewUrnType).
NewUrnTypeWholeChain(parent, type) ==
    IF parent # EmptyString
    THEN Split(parent, Sep)[3] \o <<Dollar>> \o type
    ELSE type

\* The type segment newUrn composes.
NewUrnType(parent, type) ==
    IF parent # EmptyString
    THEN LET qualifiedType == Split(parent, Sep)[3]
             parentType == Pop(Split(qualifiedType, Dollar))
         IN  parentType \o <<Dollar>> \o type
    ELSE type

newUrn(parent, type, name) ==
    <<"urn:pulumi:">>
        \o Join(<<getStack, getProject, NewUrnType(parent, type), name>>, Sep)

\* ------------------------------------------------------------ values
\* A leaf of a JavaScript property bag, by what the serializer and the
\* struct encoder do with it:
\*   "a", "b"          plain strings
\*   "undefined"       the value undefined
\*   "secret:b"        a secret Output of "b"
\*   "rejects"         a value whose serialization rejects
\*   "unencodable"     a value that serializes to itself and that the struct
\*                     encoder rejects
\*   "sig:b"           the wire form of a secret "b"
Undefined == "undefined"
NoObject == <<>>

K1 == "k1"
K2 == "k2"

PA == (K1 :> "a")
PS == (K1 :> Undefined) @@ (K2 :> "secret:b")
PR == (K1 :> "rejects")
PL == (K1 :> "unencodable")
PlainStates == {PA, PS, PR, PL}

\* What serializeProperty returns for a leaf.
SerializeProperty(v) ==
    IF v = "secret:b" THEN "sig:b" ELSE v

\* serializeProperties leaves out the keys whose value is undefined.
SerializedKeys(obj) == {k \in DOMAIN obj : obj[k] # Undefined}

\* serializeProperties(label, props): props is [defined, obj]; the promise it
\* returns rejects when props is undefined (Object.keys(undefined)) or a value
\* rejects, and otherwise resolves to the serialized object.
SerializeRejects(props) ==
    \/ ~props.defined
    \/ \E k \in DOMAIN props.obj : props.obj[k] = "rejects"

serializeProperties(props) ==
    [k \in SerializedKeys(props.obj) |-> SerializeProperty(props.obj[k])]

\* Wire payloads a registerResourceOutputs request can carry.
WA == (K1 :> "a")
WS == (K2 :> "sig:b")
WireStates == {WA, WS}

\* Struct.fromJavaScript throws "Unexpected struct type." on a value that is
\* not a string, number, boolean, null, array or object.
ValueThrows(v) == v \in {Undefined, "unencodable"}

StructThrows(obj) == \E k \in DOMAIN obj : ValueThrows(obj[k])

StructFromJavaScript(obj) == [k \in DOMAIN obj |-> <<"Value", obj[k]>>]

\* Struct.fromJavaScript of a registry entry {urn, id, state}.
EntryThrows(e) == e.id = Undefined \/ StructThrows(e.state)

EntryFromJavaScript(e) ==
    [urn |-> <<"Value", e.urn>>,
     id |-> <<"Value", e.id>>,
     state |-> <<"Struct", StructFromJavaScript(e.state)>>]

\* ------------------------------------------------------------ extension point
\* What mocks.newResource / mocks.call does when called: it throws, or returns
\* an object {id, state}, or returns a promise: one that resolves to such an
\* object ("promise"), one that rejects ("rejected"), or one that never
\* settles ("pending").
Throws == [kind |-> "throws", id |-> Undefined, state |-> NoObject]
NoResult == [kind |-> "none", id |-> Undefined, state |-> NoObject]

ResourceOutcomes ==
    {Throws}
    \cup {[kind |-> "object", id |-> Undefined, state |-> PA]}
    \cup {[kind |-> "object", id |-> "i1", state |-> s] : s \in {PS, PR, PL}}
    \cup {[kind |-> "promise", id |-> "i1", state |-> PA]}
    \cup {[kind |-> k, id |-> Undefined, state |-> NoObject] : k \in {"rejected", "pending"}}

CallOutcomes ==
    {Throws}
    \cup {[kind |-> "object", id |-> Undefined, state |-> s] : s \in PlainStates}
    \cup {[kind |-> "promise", id |-> Undefined, state |-> PA]}
    \cup {[kind |-> k, id |-> Undefined, state |-> NoObject] : k \in {"rejected", "pending"}}

\* result.id and result.state as the handler reads them: both are undefined
\* on a promise.
ResultId(result) == IF result.kind = "object" THEN result.id ELSE Undefined

\* result.state of a promise read as the state it resolves to (a faulty variant of
\* ResultState).
ResultStateAwaited(result) == [defined |-> TRUE, obj |-> result.state]

ResultState(result) ==
    IF result.kind = "object"
    THEN [defined |-> TRUE, obj |-> result.state]
    ELSE [defined |-> FALSE, obj |-> NoObject]

\* The result of mocks.call waited for before it is serialized (a faulty
\* variant of CallResultProps).
CallResultPropsAwaited(result) ==
    [defined |-> result.kind \in {"object", "promise"}, obj |-> result.state]

\* The result of mocks.call as serializeProperties sees it: a promise is an
\* object with no enumerable keys.
CallResultProps(result) ==
    [defined |-> TRUE,
     obj |-> IF result.kind = "object" THEN result.state ELSE NoObject]

\* ------------------------------------------------------------ state
VARIABLES
    resources,  \* MockMonitor.resources: urn -> {urn, id, state}
    inflight,   \* the bag of handler calls suspended at their await
    last,       \* the handler call the latest step completed, with its callbacks
    ncalls,     \* handler calls started so far
    registered, \* the urns a readResource or registerResource has answered with
    regs        \* the registrations of the name-synthesis specification

vars == <<resources, inflight, last, ncalls, registered, regs>>

Types == {<<"A">>}
Names == {<<"n">>}

GetResourceTok == "pulumi:pulumi:getResource"
OtherTok == "pkg:mod:fn"

\* A parent string with no "::" in it.
Malformed == <<"not-a-urn">>

RootUrns == {newUrn(EmptyString, t, nm) : t \in Types, nm \in Names}

\* A well-formed urn that no request registers.
Unregistered == newUrn(EmptyString, <<"A">>, <<"ghost">>)

\* The urns a request may name: the registered ones, the root urns and the
\* unregistered one.
UrnArgs == DOMAIN resources \cup RootUrns \cup {Unregistered}

\* The parents a request may declare: none, a string that is no urn, the
\* unregistered urn and the registered root urns.
Parents == {EmptyString, Malformed, Unregistered} \cup (DOMAIN resources \cap RootUrns)

\* callback(null, resp) and callback(err, undefined)
OkCb(resp) == [err |-> "null", resp |-> {resp}]
ErrCb(err) == [err |-> err, resp |-> {}]

\* A catch block that swallows the error (a faulty variant of Catch).
CatchSwallow(cbs, thrown) == cbs

\* try { ... } catch (err) { callback(err, undefined); }: cbs are the
\* callbacks the try block made before it threw.
Catch(cbs, thrown) == Append(cbs, ErrCb(thrown))

\* A set that merges the state of the new entry into that of the entry under
\* the key (a faulty variant of MapSet).
MapSetMerge(m, k, v) ==
    [x \in DOMAIN m \cup {k} |->
        IF x # k THEN m[x]
        ELSE IF k \in DOMAIN m THEN [v EXCEPT !.state = v.state @@ m[k].state]
        ELSE v]

\* A set that clears the map first (a faulty variant of MapSet).
MapSetAlone(m, k, v) == [x \in {k} |-> v]

\* A set that keeps the entry already under the key (a faulty variant of
\* MapSet).
MapSetIfAbsent(m, k, v) ==
    [x \in DOMAIN m \cup {k} |-> IF x \in DOMAIN m THEN m[x] ELSE v]

\* Map.prototype.set
MapSet(m, k, v) == [x \in DOMAIN m \cup {k} |-> IF x = k THEN v ELSE m[x]]

\* last: n counts the calls completed so far, urn is the urn the call names or
\* synthesizes, arg the outputs of a registerResourceOutputs request, ext the
\* calls the handler made to the extension point, cbs its callbacks in order.
\* NoCall when the latest step completed no call. after tells what the step
\* before that one completed: the kind and urn of that call and the registry
\* entry it left under that urn.
NoneBefore == [kind |-> "none", urn |-> EmptyString, entry |-> NoObject]

NoCall ==
    [n |-> 0, kind |-> "none", tok |-> "", urn |-> EmptyString, arg |-> NoObject,
     ext |-> 0, cbs |-> <<>>, after |-> NoneBefore]

\* What a later completion remembers of the call the step before it
\* completed, when that call wrote to the registry entry of its urn.
Before(call) ==
    IF /\ call.kind \in {"readResource", "registerResource", "registerResourceOutputs"}
       /\ Len(call.cbs) = 1
       /\ call.cbs[1].err = "null"
    THEN [kind |-> call.kind, urn |-> call.urn, entry |-> resources[call.urn]]
    ELSE NoneBefore

NoRequest == [parent |-> EmptyString, type |-> EmptyString, name |-> EmptyString]

Init ==
    /\ resources = <<>>
    /\ inflight = EmptyBag
    /\ last = NoCall
    /\ ncalls = 0
    /\ registered = {}
    /\ regs = {}

\* The call completes: its callbacks are recorded.
Complete(kind, tok, urn, arg, ext, cbs) ==
    last' = [n |-> ncalls - BagCardinality(inflight) + 1, kind |-> kind, tok |-> tok,
             urn |-> urn, arg |-> arg, ext |-> ext, cbs |-> cbs, after |-> Before(last)]

\* The call suspends at its await.
Suspend(kind, tok, req, urn, result) ==
    /\ BagCardinality(inflight) < MaxInFlight
    /\ inflight' = inflight (+) SetToBag(
           {[kind |-> kind, tok |-> tok, req |-> req, urn |-> urn, result |-> result,
             ext |-> 1]})
    /\ last' = NoCall

\* A resumption that drops every suspended call (a faulty variant of Remove).
RemoveAll(bag, p) == EmptyBag

\* A resumption that leaves the call suspended (a faulty variant of Remove).
RemoveNothing(bag, p) == bag

\* The suspended calls without one call p.
Remove(bag, p) == bag (-) SetToBag({p})

\* ------------------------------------------------------------ invoke
\* The getResource branch of invoke without the lookup check (a faulty variant of
\* GetResource).
GetResourceNoCheck(urn) ==
    IF urn \notin DOMAIN resources
    THEN <<OkCb([return |-> NoObject])>>
    ELSE IF EntryThrows(resources[urn])
    THEN Catch(<<>>, "Unexpected struct type.")
    ELSE <<OkCb([return |-> EntryFromJavaScript(resources[urn])])>>

\* The callbacks of the getResource branch of invoke, which runs without
\* suspending.
GetResource(urn) ==
    IF urn \notin DOMAIN resources
    THEN Catch(<<>>, "unknown resource")
    ELSE IF EntryThrows(resources[urn])
    THEN Catch(<<>>, "Unexpected struct type.")
    ELSE <<OkCb([return |-> EntryFromJavaScript(resources[urn])])>>

\* invoke up to its await: args is [ok, urn], ok saying whether
\* deserializeProperties returns; outcome is what mocks.call does.
Invoke(tok, args, outcome) ==
    /\ ncalls < MaxCalls
    /\ ncalls' = ncalls + 1
    /\ UNCHANGED <<resources, registered, regs>>
    /\ IF ~args.ok
       THEN /\ Complete("invoke", tok, args.urn, NoObject, 0,
                        Catch(<<>>, "deserialization error"))
            /\ UNCHANGED inflight
       ELSE IF tok = GetResourceTok
       THEN /\ Complete("invoke", tok, args.urn, NoObject, 0, GetResource(args.urn))
            /\ UNCHANGED inflight
       ELSE IF outcome.kind = "throws"
       THEN /\ Complete("invoke", tok, args.urn, NoObject, 1,
                        Catch(<<>>, "extension error"))
            /\ UNCHANGED inflight
       ELSE Suspend("invoke", tok, NoRequest, args.urn, outcome)

\* invoke answering with the result of mocks.call as it is, not serialized
\* (a faulty variant of InvokeAfterAwait).
InvokeAfterAwaitRaw(p) == <<OkCb([return |-> StructFromJavaScript(p.result.state)])>>

\* The callbacks of invoke after its await.
InvokeAfterAwait(p) ==
    LET props == CallResultProps(p.result)
        serialized == serializeProperties(props)
    IN  IF SerializeRejects(props)
        THEN Catch(<<>>, "serialization error")
        ELSE IF StructThrows(serialized)
        THEN Catch(<<>>, "Unexpected struct type.")
        ELSE <<OkCb([return |-> StructFromJavaScript(serialized)])>>

ResumeInvoke(p) ==
    /\ BagIn(p, inflight)
    /\ p.kind = "invoke"
    /\ Complete(p.kind, p.tok, p.urn, NoObject, p.ext, InvokeAfterAwait(p))
    /\ inflight' = Remove(inflight, p)
    /\ UNCHANGED <<resources, ncalls, registered, regs>>

\* ------------------------------------------------------------ readResource, registerResource
\* readResource and registerResource up to their await: propsOk says whether
\* deserializeProperties returns; outcome is what mocks.newResource does.
StartResource(kind, parent, type, name, propsOk, outcome) ==
    /\ ncalls < MaxCalls
    /\ ncalls' = ncalls + 1
    /\ UNCHANGED <<resources, registered, regs>>
    /\ IF ~propsOk
       THEN /\ Complete(kind, "", EmptyString, NoObject, 0,
                        Catch(<<>>, "deserialization error"))
            /\ UNCHANGED inflight
       ELSE IF outcome.kind = "throws"
       THEN /\ Complete(kind, "", EmptyString, NoObject, 1,
                        Catch(<<>>, "extension error"))
            /\ UNCHANGED inflight
       ELSE IF NewUrnThrows(parent)
       THEN /\ Complete(kind, "", EmptyString, NoObject, 1, Catch(<<>>, "TypeError"))
            /\ UNCHANGED inflight
       ELSE Suspend(kind, "", [parent |-> parent, type |-> type, name |-> name],
                    newUrn(parent, type, name), outcome)

ReadResource(parent, type, name, propsOk, outcome) ==
    StartResource("readResource", parent, type, name, propsOk, outcome)

RegisterResource(parent, type, name, propsOk, outcome) ==
    StartResource("registerResource", parent, type, name, propsOk, outcome)

\* { urn, id: result.id, state: serializedState }
NewEntry(urn, id, state) == [urn |-> urn, id |-> id, state |-> state]

\* The response of registerResource without its id (a faulty variant of Response).
ResponseNoId(kind, urn, id, serialized) ==
    IF kind = "readResource"
    THEN [urn |-> urn, properties |-> StructFromJavaScript(serialized)]
    ELSE [urn |-> urn, id |-> Undefined, object |-> StructFromJavaScript(serialized)]

\* ReadResourceResponse {urn, properties}; RegisterResourceResponse {urn, id,
\* object}.
Response(kind, urn, id, serialized) ==
    IF kind = "readResource"
    THEN [urn |-> urn, properties |-> StructFromJavaScript(serialized)]
    ELSE [urn |-> urn, id |-> id, object |-> StructFromJavaScript(serialized)]

\* The handler sets the registry entry once serializeProperties has resolved.
CommitsAfterAwait(p) == ~SerializeRejects(ResultState(p.result))

\* The callbacks of readResource and registerResource after their await.
ResourceAfterAwait(p) ==
    LET props == ResultState(p.result)
        serialized == serializeProperties(props)
    IN  IF SerializeRejects(props)
        THEN Catch(<<>>, "serialization error")
        ELSE IF StructThrows(serialized)
        THEN Catch(<<>>, "Unexpected struct type.")
        ELSE <<OkCb(Response(p.kind, p.urn, ResultId(p.result), serialized))>>

ResumeResource(p) ==
    /\ BagIn(p, inflight)
    /\ p.kind # "invoke"
    /\ resources' =
         IF CommitsAfterAwait(p)
         THEN MapSet(resources, p.urn,
                     NewEntry(p.urn, ResultId(p.result),
                              serializeProperties(ResultState(p.result))))
         ELSE resources
    /\ Complete(p.kind, p.tok, p.urn, NoObject, p.ext, ResourceAfterAwait(p))
    /\ registered' =
         IF \E i \in DOMAIN ResourceAfterAwait(p) : ResourceAfterAwait(p)[i].err = "null"
         THEN registered \cup {p.urn}
         ELSE registered
    /\ inflight' = Remove(inflight, p)
    /\ UNCHANGED <<ncalls, regs>>

\* ------------------------------------------------------------ registerResourceOutputs
\* Outputs merged into the stored state (a faulty variant of SetOutputs).
SetOutputsMerge(entry, outputs) == [entry EXCEPT !.state = outputs @@ entry.state]

\* Outputs stored in a fresh entry that has lost the id (a faulty variant of
\* SetOutputs).
SetOutputsFresh(entry, outputs) ==
    [urn |-> entry.urn, id |-> Undefined, state |-> outputs]

\* registeredResource.state = req.getOutputs()
SetOutputs(entry, outputs) == [entry EXCEPT !.state = outputs]

RegisterResourceOutputs(urn, outputs) ==
    /\ ncalls < MaxCalls
    /\ ncalls' = ncalls + 1
    /\ IF urn \notin DOMAIN resources
       THEN /\ Complete("registerResourceOutputs", "", urn, outputs, 0,
                        Catch(<<>>, "unknown resource"))
            /\ UNCHANGED resources
       ELSE /\ resources' = [resources EXCEPT ![urn] = SetOutputs(resources[urn], outputs)]
            /\ Complete("registerResourceOutputs", "", urn, outputs, 0,
                        <<OkCb(NoObject)>>)
    /\ UNCHANGED <<inflight, registered, regs>>

\* ------------------------------------------------------------ supportsFeature
SupportsFeature ==
    /\ ncalls < MaxCalls
    /\ ncalls' = ncalls + 1
    /\ Complete("supportsFeature", "", EmptyString, NoObject, 0,
                <<OkCb([hasSupport |-> TRUE])>>)
    /\ UNCHANGED <<resources, inflight, registered, regs>>

\* ------------------------------------------------------------ specification
\* The requests and extension-point behaviours tried, each once: what the
\* handler never reads (the extension point after a failed deserialization,
\* mocks.call under getResource, the parent after a throw of mocks.newResource,
\* the state returned under a parent newUrn cannot split) is fixed.
InvokeInputs ==
    {[tok |-> GetResourceTok, args |-> [ok |-> TRUE, urn |-> u], outcome |-> Throws] :
        u \in UrnArgs}
    \cup {[tok |-> OtherTok, args |-> [ok |-> TRUE, urn |-> EmptyString], outcome |-> o] :
        o \in CallOutcomes}
    \cup {[tok |-> t, args |-> [ok |-> FALSE, urn |-> EmptyString], outcome |-> Throws] :
        t \in {GetResourceTok, OtherTok}}

ResourceInputs ==
    {i \in [parent : Parents, type : Types, name : Names, propsOk : {TRUE},
            outcome : ResourceOutcomes] :
        /\ i.outcome = Throws => i.parent = EmptyString
        /\ i.parent = Malformed => i.outcome.state = PA}
    \cup {[parent |-> EmptyString, type |-> t, name |-> nm, propsOk |-> FALSE,
           outcome |-> Throws] : t \in Types, nm \in Names}

\* readResource differs from registerResource in its response alone: it is
\* tried with the extension-point behaviours that end in a response, and
\* with a throw and a rejection.
ReadInputs ==
    {i \in ResourceInputs :
        \/ i.outcome.kind \in {"throws", "rejected"}
        \/ i.outcome.kind = "object" /\ i.outcome.state \in {PA, PS}}

Next ==
    \/ \E i \in InvokeInputs : Invoke(i.tok, i.args, i.outcome)
    \/ \E p \in BagToSet(inflight) : ResumeInvoke(p)
    \/ \E i \in ReadInputs :
          ReadResource(i.parent, i.type, i.name, i.propsOk, i.outcome)
    \/ \E i \in ResourceInputs :
          RegisterResource(i.parent, i.type, i.name, i.propsOk, i.outcome)
    \/ \E p \in BagToSet(inflight) : ResumeResource(p)
    \/ \E urn \in UrnArgs, outputs \in WireStates : RegisterResourceOutputs(urn, outputs)
    \/ SupportsFeature

Spec == Init /\ [][Next]_vars

\* ------------------------------------------------------------ scheduling
\* The handlers run on one thread, each from its call or from its await to
\* its next await or its end. mocks.call and mocks.newResource are called
\* synchronously: a call of them that never returns keeps the thread, and
\* no handler is started or resumed after it. A promise they return that
\* never settles is the outcome "pending" above.
Hung(kind) == [NoCall EXCEPT !.kind = "hung", !.tok = kind]

Blocked == last.kind = "hung"

\* A handler calls the extension point, which never returns.
ExtensionHangs(kind) ==
    /\ ncalls < MaxCalls
    /\ ncalls' = ncalls + 1
    /\ last' = Hung(kind)
    /\ UNCHANGED <<resources, inflight, registered, regs>>

\* The requests tried under scheduling: those whose handler calls the
\* extension point, which answers, throws or returns a promise that never
\* settles.
LiveInvokeInputs ==
    {i \in InvokeInputs :
        /\ i.tok = OtherTok
        /\ i.args.ok
        /\ \/ i.outcome.kind \in {"throws", "pending"}
           \/ i.outcome.kind = "object" /\ i.outcome.state = PS}

LiveResourceInputs ==
    {i \in ResourceInputs :
        /\ i.parent = EmptyString
        /\ i.propsOk
        /\ \/ i.outcome.kind \in {"throws", "pending"}
           \/ i.outcome.kind = "object" /\ i.outcome.state = PS}

NextLive ==
    \/ ~Blocked /\ \E i \in LiveInvokeInputs : Invoke(i.tok, i.args, i.outcome)
    \/ ~Blocked /\ \E p \in BagToSet(inflight) : ResumeInvoke(p)
    \/ ~Blocked /\ \E i \in LiveResourceInputs :
                      ReadResource(i.parent, i.type, i.name, i.propsOk, i.outcome)
    \/ ~Blocked /\ \E i \in LiveResourceInputs :
                      RegisterResource(i.parent, i.type, i.name, i.propsOk, i.outcome)
    \/ ~Blocked /\ \E p \in BagToSet(inflight) : ResumeResource(p)
    \/ ~Blocked /\ \E kind \in {"invoke", "readResource", "registerResource"} :
                      ExtensionHangs(kind)

\* A continuation that is ready runs once the thread is free.
ResumeSome ==
    /\ ~Blocked
    /\ \E p \in BagToSet(inflight) : ResumeInvoke(p) \/ ResumeResource(p)

SpecLive == Init /\ [][NextLive]_vars /\ WF_vars(ResumeSome)

\* ------------------------------------------------------------ name synthesis
\* Registration chains, to check newUrn alone: each registration names a
\* parent registered before it (or none) and records the urn newUrn gives it,
\* with the chain of its ancestors' (type, name) from the root down.
UrnTypes == {<<"A">>, <<"B">>, <<"C">>}
UrnNames == {<<"n">>, <<"m">>}

NoParent == [chain |-> <<>>, parent |-> EmptyString, type |-> EmptyString,
             name |-> EmptyString, urn |-> EmptyString]

ChainOf(parentReg) ==
    IF parentReg = NoParent THEN <<>>
    ELSE Append(parentReg.chain, <<parentReg.type, parentReg.name>>)

RegisterUrn(parentReg, type, name) ==
    /\ Cardinality(regs) < MaxRegs
    /\ regs' = regs \cup
         {[chain |-> ChainOf(parentReg), parent |-> parentReg.urn, type |-> type,
           name |-> name, urn |-> newUrn(parentReg.urn, type, name)]}
    /\ UNCHANGED <<resources, inflight, last, ncalls, registered>>

NextUrn ==
    \E parentReg \in regs \cup {NoParent}, type \in UrnTypes, name \in UrnNames :
        RegisterUrn(parentReg, type, name)

SpecUrn == Init /\ [][NextUrn]_vars

\* ------------------------------------------------------------ claims
\* The call the latest step completed made one callback, a success.
Succeeded(call) == Len(call.cbs) = 1 /\ call.cbs[1].err = "null"

\* The call the latest step completed made one callback, an error.
Failed(call) == Len(call.cbs) = 1 /\ call.cbs[1].err # "null"

\* The response of a call that succeeded.
ResponseOf(call) == CHOOSE r \in call.cbs[1].resp : TRUE

IsGetResource(call) == call.kind = "invoke" /\ call.tok = GetResourceTok

\* C1: a getResource invoke for a urn U that is in the registry succeeds, and
\* what it returns is the encoding of the state stored for U and nothing
\* else.
C1_GetResourceReturnsState ==
    (IsGetResource(last) /\ last.urn \in DOMAIN resources)
        => /\ Succeeded(last)
           /\ ResponseOf(last) = [return |-> StructFromJavaScript(resources[last.urn].state)]

\* C2: a registerResourceOutputs on a registered urn leaves, as the stored
\* state of that urn, exactly the outputs of the request: no key of the
\* state stored before survives, and the urn and id of the entry stay.
C2_OutputsReplaceState ==
    (last.kind = "registerResourceOutputs" /\ Succeeded(last))
        => /\ last.urn \in DOMAIN resources
           /\ resources[last.urn].state = last.arg
           /\ DOMAIN resources[last.urn].state = DOMAIN last.arg

\* C2's case: the third call completed is a registerResourceOutputs with the
\* payload {k2} on an entry registered with state {k1} (the only state
\* registered with an undefined id), and k1 is gone.
C2_Witness ==
    /\ last.kind = "registerResourceOutputs"
    /\ Succeeded(last)
    /\ last.n = 3
    /\ last.arg = WS
    /\ resources[last.urn].id = Undefined
    /\ K1 \notin DOMAIN resources[last.urn].state

\* C3: once a readResource or registerResource has answered with urn U,
\* every getResource invoke for U succeeds.
C3_GetResourceSucceedsOnceRegistered ==
    (IsGetResource(last) /\ last.urn \in registered) => Succeeded(last)

\* C4: two registrations with distinct parent chains get distinct urns, and
\* two registrations with the same parent, type and name get the same urn.
C4_DistinctChainsDistinctUrns ==
    \A r1, r2 \in regs :
        /\ r1.chain # r2.chain => r1.urn # r2.urn
        /\ (r1.parent = r2.parent /\ r1.type = r2.type /\ r1.name = r2.name)
               => r1.urn = r2.urn

UrnPrefix == <<"urn:pulumi:", "stack", Sep, "project", Sep>>

\* The type token of the parent itself: the last of the chain.
OwnTypeOfParent(r) == r.chain[Len(r.chain)][1]

\* C5: with no parent the urn is urn:pulumi:stack::project::type::name; with
\* a parent of own (innermost) type B it is
\* urn:pulumi:stack::project::B$type::name, whatever chain the parent's type
\* segment holds before B, so the type segment has exactly two "$" parts at
\* every depth.
C5_InnermostParentTypeOnly ==
    \A r \in regs :
        IF r.parent = EmptyString
        THEN r.urn = UrnPrefix \o r.type \o <<Sep>> \o r.name
        ELSE /\ r.urn = UrnPrefix \o OwnTypeOfParent(r) \o <<Dollar>> \o r.type
                            \o <<Sep>> \o r.name
             /\ Len(Split(Split(r.urn, Sep)[3], Dollar)) = 2

\* C5's case: a parent with type segment A$B and a child of type C, whose
\* type segment is B$C.
C5_Witness ==
    \E r \in regs :
        /\ r.parent # EmptyString
        /\ Split(r.parent, Sep)[3] = <<"A", Dollar, "B">>
        /\ r.type = <<"C">>
        /\ Split(r.urn, Sep)[3] = <<"B", Dollar, "C">>

\* The step resumes the suspended call p and completes it.
Resumed(p) ==
    /\ BagIn(p, inflight)
    /\ inflight' = Remove(inflight, p)
    /\ last' # NoCall

IsResource(p) == p.kind \in {"readResource", "registerResource"}

\* The serialized form of a state the extension point returned.
SerializedState(state) == serializeProperties([defined |-> TRUE, obj |-> state])

\* C6: a registerResource that succeeds, its extension point having returned
\* {id, state}, answers with the synthesized urn, that id and the serialized
\* state, and the registry then holds that id and serialized state under
\* that urn; a readResource does the same and its response carries no id.
C6_ResponseAndEntry ==
    [][\A p \in BagToSet(inflight) :
          (Resumed(p) /\ IsResource(p) /\ p.result.kind = "object" /\ Succeeded(last'))
            => LET resp == ResponseOf(last')
                   urn == newUrn(p.req.parent, p.req.type, p.req.name)
                   state == SerializedState(p.result.state)
               IN  /\ resp.urn = urn
                   /\ IF p.kind = "registerResource"
                      THEN /\ resp.id = p.result.id
                           /\ resp.object = StructFromJavaScript(state)
                      ELSE /\ "id" \notin DOMAIN resp
                           /\ resp.properties = StructFromJavaScript(state)
                   /\ urn \in DOMAIN resources'
                   /\ resources'[urn] = [urn |-> urn, id |-> p.result.id, state |-> state]
      ]_vars

\* C6's case: a registerResource under a parent has answered with id "i1"
\* and the wire form of the secret state, and the registry holds them.
C6_Witness ==
    /\ last.kind = "registerResource"
    /\ Succeeded(last)
    /\ ResponseOf(last).id = "i1"
    /\ ResponseOf(last).object = StructFromJavaScript(WS)
    /\ Split(last.urn, Sep)[3] = <<"A", Dollar, "A">>
    /\ resources[last.urn] = [urn |-> last.urn, id |-> "i1", state |-> WS]

\* The calls completed so far.
Completed == ncalls - BagCardinality(inflight)

C8_ErrorLeavesRegistry ==
    [][(Completed' > Completed /\ Failed(last')) => resources' = resources]_vars

\* C9: a getResource invoke naming a urn that is not in the registry, and a
\* registerResourceOutputs naming one, complete with the "unknown resource"
\* error and leave the registry as it was; the getResource invoke does not
\* call the extension point.
C9_UnknownResource ==
    [][(/\ Completed' > Completed
        /\ \/ IsGetResource(last') /\ last'.urn # EmptyString
           \/ last'.kind = "registerResourceOutputs"
        /\ last'.urn \notin DOMAIN resources)
          => /\ last'.cbs = <<ErrCb("unknown resource")>>
             /\ resources' = resources
             /\ last'.ext = 0
      ]_vars

\* C9's case: with a resource registered, a getResource invoke for the
\* unregistered urn has failed.
C9_Witness ==
    /\ IsGetResource(last)
    /\ last.urn = Unregistered
    /\ DOMAIN resources # {}
    /\ last.cbs = <<ErrCb("unknown resource")>>

ExtensionThrows ==
    /\ ncalls' = ncalls + 1
    /\ inflight' = inflight
    /\ \/ Invoke(OtherTok, [ok |-> TRUE, urn |-> EmptyString], Throws)
       \/ \E parent \in Parents, type \in Types, name \in Names :
             \/ ReadResource(parent, type, name, TRUE, Throws)
             \/ RegisterResource(parent, type, name, TRUE, Throws)

HasPeer(p) ==
    \E q \in BagToSet(inflight) :
        /\ IsResource(q)
        /\ q.urn = p.urn
        /\ q # p \/ CopiesIn(p, inflight) > 1

\* The step before completed a readResource or registerResource with the urn
\* of p, which was suspended together with p.
PeerJustFinished(p) ==
    /\ last.kind \in {"readResource", "registerResource"}
    /\ last.urn = p.urn

\* C12: of two readResource/registerResource calls with the same urn that
\* are suspended together, each one that commits leaves its own id and
\* serialized state as the whole entry, whatever the other committed before;
\* one that does not commit leaves the entry of the other as it is. So the
\* entry after both is that of the last to commit, with no key or id of the
\* other.
C12_LastCommitWins ==
    [][\A p \in BagToSet(inflight) :
          (Resumed(p) /\ IsResource(p) /\ (HasPeer(p) \/ PeerJustFinished(p)))
            => IF CommitsAfterAwait(p)
               THEN /\ resources'[p.urn].id = p.result.id
                    /\ resources'[p.urn].state = SerializedState(p.result.state)
                    /\ DOMAIN resources'[p.urn].state
                         = SerializedKeys(p.result.state)
               ELSE resources' = resources
      ]_vars

\* C12's case: two calls with the same urn were suspended together; the
\* first to finish committed no id and the state {k1}, the second committed
\* the id "i1" and the state {k2}, and the entry is the second's alone.
C12_Witness ==
    /\ last.kind \in {"readResource", "registerResource"}
    /\ last.after.kind \in {"readResource", "registerResource"}
    /\ last.after.urn = last.urn
    /\ last.after.entry = [urn |-> last.urn, id |-> Undefined, state |-> PA]
    /\ resources[last.urn] = [urn |-> last.urn, id |-> "i1", state |-> WS]
    /\ inflight = EmptyBag

\* C13: a handler call that completes with an error leaves every registry
\* entry other than the one under its own urn as it was, adds no entry under
\* another urn, and leaves every suspended call with another urn as it was:
\* the urn and the extension-point result it holds, from which alone its
\* response and its entry are computed.
C13_FailureIsolated ==
    [][(Completed' > Completed /\ Failed(last'))
          => /\ \A u \in DOMAIN resources \ {last'.urn} :
                   u \in DOMAIN resources' /\ resources'[u] = resources[u]
             /\ DOMAIN resources' \subseteq DOMAIN resources \cup {last'.urn}
             /\ \A q \in BagToSet(inflight) \cup BagToSet(inflight') :
                   q.urn # last'.urn => CopiesIn(q, inflight') = CopiesIn(q, inflight)
      ]_vars

\* C13's case: a registerResource has failed after its await while the
\* registry holds an entry under another urn and a call with another urn is
\* suspended.
C13_Witness ==
    /\ last.kind = "registerResource"
    /\ Failed(last)
    /\ last.urn # EmptyString
    /\ \E u \in DOMAIN resources : u # last.urn
    /\ \E q \in BagToSet(inflight) : IsResource(q) /\ q.urn # last.urn

\* C14: a readResource or registerResource that declares a parent urn which
\* is not in the registry completes with an error and commits no entry.
C14_UnknownParentFails ==
    [][\A p \in BagToSet(inflight) :
          (/\ Resumed(p)
           /\ IsResource(p)
           /\ p.req.parent # EmptyString
           /\ p.req.parent \notin DOMAIN resources)
            => /\ Failed(last')
               /\ resources' = resources
      ]_vars

\* C15: every registry entry carries as its urn the key it is stored under;
\* the urn of an entry never changes while the entry exists, whether it is
\* written again by a readResource or registerResource or by a
\* registerResourceOutputs; and a registerResourceOutputs leaves the id of
\* the entry as it was.
C15_UrnIsKeyAndStable ==
    [][/\ \A k \in DOMAIN resources' : resources'[k].urn = k
       /\ \A k \in DOMAIN resources \cap DOMAIN resources' :
             resources'[k].urn = resources[k].urn
       /\ (/\ Completed' > Completed
           /\ last'.kind = "registerResourceOutputs"
           /\ last'.urn \in DOMAIN resources)
             => /\ resources'[last'.urn].urn = resources[last'.urn].urn
                /\ resources'[last'.urn].id = resources[last'.urn].id
      ]_vars

\* C15's case: a registerResourceOutputs has replaced the state of an entry
\* registered under a parent with the id "i1", and the entry still has its
\* key as urn and that id.
C15_Witness ==
    /\ last.kind = "registerResourceOutputs"
    /\ Succeeded(last)
    /\ Split(last.urn, Sep)[3] = <<"A", Dollar, "A">>
    /\ resources[last.urn] = [urn |-> last.urn, id |-> "i1", state |-> WA]

\* C16: a urn that is in the registry is in the registry after every step,
\* whatever call the step starts, resumes, completes or fails.
C16_RegistryNeverShrinks ==
    [][DOMAIN resources \subseteq DOMAIN resources']_vars

\* C16's case: with two urns registered, a call naming the unregistered urn
\* has failed, and both urns are still there.
C16_Witness ==
    /\ Cardinality(DOMAIN resources) = 2
    /\ Failed(last)
    /\ last.urn = Unregistered

\* The step starts an invoke with a token other than getResource.
OtherInvokeStarts ==
    /\ ncalls' = ncalls + 1
    /\ \/ last'.kind = "invoke" /\ last'.tok # GetResourceTok
       \/ \E q \in BagToSet(inflight') :
             q.kind = "invoke" /\ CopiesIn(q, inflight') = CopiesIn(q, inflight) + 1

\* The step completes a supportsFeature call.
SupportsFeatureCompletes ==
    Completed' > Completed /\ last'.kind = "supportsFeature"

\* What a state serializes and encodes to.
Encodable(state) ==
    /\ ~SerializeRejects([defined |-> TRUE, obj |-> state])
    /\ ~StructThrows(SerializedState(state))

C19_ReRegistrationOverwrites ==
    [][\A p \in BagToSet(inflight) :
          (/\ Resumed(p)
           /\ IsResource(p)
           /\ p.urn \in DOMAIN resources
           /\ p.result.kind = "object"
           /\ ~SerializeRejects([defined |-> TRUE, obj |-> p.result.state]))
            => /\ resources'[p.urn].id = p.result.id
               /\ resources'[p.urn].state = SerializedState(p.result.state)
               /\ \A k \in DOMAIN resources[p.urn].state :
                     k \notin SerializedKeys(p.result.state)
                        => k \notin DOMAIN resources'[p.urn].state
      ]_vars

\* C19's case: a registerResourceOutputs stored {k1} in an entry without id
\* while a registerResource of the same urn was suspended; that call then
\* committed the id "i1" and the state {k2}, and k1 is gone.
C19_Witness ==
    /\ last.kind = "registerResource"
    /\ Succeeded(last)
    /\ last.after.kind = "registerResourceOutputs"
    /\ last.after.urn = last.urn
    /\ last.after.entry = [urn |-> last.urn, id |-> Undefined, state |-> WA]
    /\ resources[last.urn] = [urn |-> last.urn, id |-> "i1", state |-> WS]

====
